---- MODULE Spec2Model ----
(***************************************************************************)
(* Refresh orchestration of store_scrap: the concurrency limiter and the   *)
(* round-robin slice of util.mjs, the on-demand server (getStoreData,      *)
(* handleApi), fetchGoogleData, the batch build and the iTunes lookup      *)
(* cache.  Each entry point of the repository is one value of `mode`.      *)
(***************************************************************************)
EXTENDS Integers, Sequences, FiniteSets, TLC

VARIABLES
  mode,        \* which entry point this behaviour runs
  \* ---- createLimiter (util.mjs)
  limit,       \* the limiter's limit N
  active,      \* let active
  queue,       \* const queue: task ids in submission order
  tstate,      \* position of every task's promise chain
  micro,       \* the microtask queue: calls of fn scheduled and not yet made
  runs,        \* how many times each task's fn has been called
  fnSettled,   \* what each task's fn settled with
  promise,     \* the promise limiter(fn) returned to each submitter
  submitted,   \* history: the tasks in the order they were submitted
  waited,      \* history: the tasks that stayed in the queue after limiter(fn)
  \* ---- roundRobinSlice (util.mjs)
  rrList,      \* the catalog handed to roundRobinSlice
  rrCursor,    \* the cursor the next call gets
  rrSize,      \* the batch size
  rrStart,     \* the cursor the first call got
  rrOut,       \* what the last call returned, with its input cursor
  rrVisited,   \* concatenation of the slices returned so far
  rrCalls,     \* number of calls made
  \* ---- fetchWithRetry (apple.mjs, the revision that retries)
  retryPc,     \* where the running fetchWithRetry call is suspended
  retryI,      \* the loop variable i
  lastError,   \* let lastError (NoError while undefined)
  retryOut,    \* what the call returned or threw
  attempts,    \* history: the outcome of every fetchJson call, in order
  slept,       \* history: the argument of every sleep() call, in order
  elapsed,     \* history: total time spent suspended in sleep()
  \* ---- the on-demand server (server part of google.mjs)
  now,         \* Date.now()
  cache,       \* const cache = new Map(): key -> {data, fetchedAt}
  inFlight,    \* const inFlight = new Map(): key -> promise (a fetch id)
  fetches,     \* the running async bodies of getStoreData, by promise id
  nFetches,    \* number of upstream fetches started so far
  calls,       \* the getStoreData calls awaiting a promise
  nRequests,   \* number of HTTP requests handled so far
  completed,   \* history: key -> time and fnSettled of its last settled fetch
  \* ---- the batch build (build.mjs)
  files,       \* data/<store>/<country>.json: key -> persisted record
  meta,        \* data/meta.json, Null while the file does not exist
  summary,     \* data/global_summary.json, Null while the file does not exist
  run,         \* the locals of the running build(): args, targets, cursor
  tasks,       \* the per-country tasks of the running build()
  nRuns,       \* number of runs started so far
  \* ---- the iTunes lookup cache (apple.mjs, util.mjs)
  itunesFile,  \* cache/itunes_cache.json: id -> {data, updatedAt}
  workers,     \* the running fetchAppleData calls: position and cache object
  checks,      \* observed: the freshness checks the last step evaluated
  events,      \* observed: the calls the last step made or answered
  lastEmit     \* observed: the refresh the last step settled, and its fnSettled

limVars == <<limit, active, queue, tstate, micro, runs, fnSettled, promise, submitted, waited>>
rrVars == <<rrList, rrCursor, rrSize, rrStart, rrOut, rrVisited, rrCalls>>
srvVars == <<cache, inFlight, fetches, nFetches, calls, nRequests, completed>>
bldVars == <<files, meta, summary, run, tasks, nRuns>>
lkVars == <<itunesFile, workers>>
obsVars == <<now, checks, events, lastEmit>>
rtVars == <<retryPc, retryI, lastError, retryOut, attempts, slept, elapsed>>
vars == <<mode, limVars, rrVars, rtVars, srvVars, bldVars, lkVars, obsVars>>
\* what the actions of one entry point leave alone
limOther == <<mode, rtVars, rrVars, srvVars, bldVars, lkVars, obsVars>>
rrOther == <<mode, rtVars, limVars, srvVars, bldVars, lkVars, obsVars>>
srvOther == <<mode, rtVars, limVars, rrVars, bldVars, lkVars>>
bldOther == <<mode, rtVars, limVars, rrVars, srvVars, lkVars, checks, events>>
lkOther == <<mode, rtVars, limVars, rrVars, srvVars, bldVars, events, lastEmit>>

Min(a, b) == IF a <= b THEN a ELSE b
Max(a, b) == IF a >= b THEN a ELSE b

(***************************************************************************)
(* createLimiter                                                           *)
(***************************************************************************)
MaxLimit == 2
MaxTasks == 3
Tasks == 1..MaxTasks

Running == {t \in Tasks : tstate[t] = "running"}

\* the settlement of a promise: pending, or the value / error of task `of`
Unsettled == [state |-> "pending", ok |-> FALSE, of |-> 0]
Settled(ok, t) == [state |-> "settled", ok |-> ok, of |-> t]

\* const next = () => {...}: a task leaves the queue only below the limit.
nextMutGt(st) ==
  IF st.active > st.limit \/ Len(st.queue) = 0
  THEN st
  ELSE [st EXCEPT !.queue = Tail(st.queue),
                  !.active = st.active + 1,
                  !.micro = Append(st.micro, Head(st.queue)),
                  !.tstate = [st.tstate EXCEPT ![Head(st.queue)] = "scheduled"]]

nextMutLifo(st) ==
  IF st.active >= st.limit \/ Len(st.queue) = 0
  THEN st
  ELSE [st EXCEPT !.queue = SubSeq(st.queue, 1, Len(st.queue) - 1),
                  !.active = st.active + 1,
                  !.micro = Append(st.micro, st.queue[Len(st.queue)]),
                  !.tstate = [st.tstate EXCEPT ![st.queue[Len(st.queue)]] = "scheduled"]]

\* queue.shift(); active += 1; Promise.resolve().then(fn) queues the call of fn
next(st) ==
  IF st.active >= st.limit \/ Len(st.queue) = 0
  THEN st
  ELSE [st EXCEPT !.queue = Tail(st.queue),
                  !.active = st.active + 1,
                  !.micro = Append(st.micro, Head(st.queue)),
                  !.tstate = [st.tstate EXCEPT ![Head(st.queue)] = "scheduled"]]

LimState ==
  [limit |-> limit, active |-> active, queue |-> queue, micro |-> micro,
   tstate |-> tstate]

SetLim(st) ==
  /\ active' = st.active
  /\ queue' = st.queue
  /\ micro' = st.micro
  /\ tstate' = st.tstate
  /\ limit' = st.limit

\* limiter(fn): queue.push({fn, resolve, reject}); next()
Submit(t) ==
  /\ mode = "limiter"
  /\ tstate[t] = "new"
  /\ LET st == next([LimState EXCEPT !.queue = Append(queue, t),
                                     !.tstate = [tstate EXCEPT ![t] = "queued"]])
     IN /\ SetLim(st)
        /\ waited' = IF st.tstate[t] = "queued" THEN waited \cup {t} ELSE waited
  /\ submitted' = Append(submitted, t)
  /\ UNCHANGED <<runs, fnSettled, promise, limOther>>

\* Promise.resolve().then(fn): the microtask that calls fn; microtasks run in
\* the order they were queued
FnStart(t) ==
  /\ mode = "limiter"
  /\ tstate[t] = "scheduled"
  /\ Len(micro) > 0
  /\ t = Head(micro)
  /\ micro' = Tail(micro)
  /\ tstate' = [tstate EXCEPT ![t] = "running"]
  /\ runs' = [runs EXCEPT ![t] = runs[t] + 1]
  /\ UNCHANGED <<limit, active, queue, fnSettled, promise, submitted, waited, limOther>>

\* fn's promise settles: fulfilled with its value or rejected with its error
FnSettle(t, ok) ==
  /\ mode = "limiter"
  /\ tstate[t] = "running"
  /\ tstate' = [tstate EXCEPT ![t] = IF ok THEN "fulfilled" ELSE "failed"]
  /\ fnSettled' = [fnSettled EXCEPT ![t] = Settled(ok, t)]
  /\ UNCHANGED <<limit, active, queue, micro, runs, promise, submitted, waited,
                 limOther>>

OnRejectedMutNoNext(t) ==
  /\ mode = "limiter"
  /\ tstate[t] = "failed"
  /\ SetLim([LimState EXCEPT !.active = active - 1,
                             !.tstate = [tstate EXCEPT ![t] = "rejected"]])
  /\ promise' = [promise EXCEPT ![t] = fnSettled[t]]
  /\ UNCHANGED <<runs, fnSettled, submitted, waited, limOther>>

OnFulfilledMutNoNext(t) ==
  /\ mode = "limiter"
  /\ tstate[t] = "fulfilled"
  /\ SetLim([LimState EXCEPT !.active = active - 1,
                             !.tstate = [tstate EXCEPT ![t] = "resolved"]])
  /\ promise' = [promise EXCEPT ![t] = fnSettled[t]]
  /\ UNCHANGED <<runs, fnSettled, submitted, waited, limOther>>

\* .then((value) => { active -= 1; resolve(value); next(); })
OnFulfilled(t) ==
  /\ mode = "limiter"
  /\ tstate[t] = "fulfilled"
  /\ SetLim(next([LimState EXCEPT !.active = active - 1,
                                  !.tstate = [tstate EXCEPT ![t] = "resolved"]]))
  /\ promise' = [promise EXCEPT ![t] = fnSettled[t]]
  /\ UNCHANGED <<runs, fnSettled, submitted, waited, limOther>>

\* .catch((error) => { active -= 1; reject(error); next(); })
OnRejected(t) ==
  /\ mode = "limiter"
  /\ tstate[t] = "failed"
  /\ SetLim(next([LimState EXCEPT !.active = active - 1,
                                  !.tstate = [tstate EXCEPT ![t] = "rejected"]]))
  /\ promise' = [promise EXCEPT ![t] = fnSettled[t]]
  /\ UNCHANGED <<runs, fnSettled, submitted, waited, limOther>>

(***************************************************************************)
(* fetchWithRetry                                                          *)
(***************************************************************************)
RETRY_DELAYS == <<300, 800, 1500>>
rtOther == <<mode, limVars, rrVars, srvVars, bldVars, lkVars, obsVars>>

\* what one fetchJson(url) call can do: resolve with JSON or throw an Error
JsonValues == {"v1", "v2"}
ErrorKinds == {"(404)", "(500)", "network"}
NoError == [kind |-> "undefined", attempt |-> 0]
FetchError(kind, n) == [kind |-> kind, attempt |-> n]
NoOutcome == [how |-> "pending", value |-> "none", error |-> NoError]
Returned(v) == [how |-> "return", value |-> v, error |-> NoError]
Thrown(e) == [how |-> "throw", value |-> "none", error |-> e]

\* fetchWithRetry(url): let lastError; i = 0; the first fetchJson is awaited
fetchWithRetry ==
  /\ mode = "retry"
  /\ retryPc = "idle"
  /\ retryPc' = "fetchJson"
  /\ retryI' = 0
  /\ UNCHANGED <<lastError, retryOut, attempts, slept, elapsed, rtOther>>

\* return await fetchJson(url): the first success ends the loop
FetchJsonOk(v) ==
  /\ mode = "retry"
  /\ retryPc = "fetchJson"
  /\ attempts' = Append(attempts, Returned(v))
  /\ retryOut' = Returned(v)
  /\ retryPc' = "done"
  /\ UNCHANGED <<retryI, lastError, slept, elapsed, rtOther>>

FetchJsonFailMutFirstError(kind) ==
  /\ mode = "retry"
  /\ retryPc = "fetchJson"
  /\ LET error == FetchError(kind, Len(attempts) + 1)
         kept == IF lastError = NoError THEN error ELSE lastError
     IN /\ attempts' = Append(attempts, Thrown(error))
        /\ lastError' = kept
        /\ IF retryI < Len(RETRY_DELAYS)
           THEN /\ slept' = Append(slept, RETRY_DELAYS[retryI + 1])
                /\ retryPc' = "sleep"
                /\ UNCHANGED <<retryI, retryOut>>
           ELSE /\ retryI' = retryI + 1
                /\ retryOut' = Thrown(kept)
                /\ retryPc' = "done"
                /\ UNCHANGED slept
  /\ UNCHANGED <<elapsed, rtOther>>

\* catch (error) { lastError = error; if (i < RETRY_DELAYS.length) await sleep(...) }
\* after the last attempt: i += 1, the loop ends, throw lastError
FetchJsonFail(kind) ==
  /\ mode = "retry"
  /\ retryPc = "fetchJson"
  /\ LET error == FetchError(kind, Len(attempts) + 1)
     IN /\ attempts' = Append(attempts, Thrown(error))
        /\ lastError' = error
        /\ IF retryI < Len(RETRY_DELAYS)
           THEN /\ slept' = Append(slept, RETRY_DELAYS[retryI + 1])
                /\ retryPc' = "sleep"
                /\ UNCHANGED <<retryI, retryOut>>
           ELSE /\ retryI' = retryI + 1
                /\ retryOut' = Thrown(error)
                /\ retryPc' = "done"
                /\ UNCHANGED slept
  /\ UNCHANGED <<elapsed, rtOther>>

\* the timer of sleep(ms) fires: i += 1, i <= RETRY_DELAYS.length, fetchJson again
SleepDone ==
  /\ mode = "retry"
  /\ retryPc = "sleep"
  /\ elapsed' = elapsed + slept[Len(slept)]
  /\ retryI' = retryI + 1
  /\ retryPc' = "fetchJson"
  /\ UNCHANGED <<lastError, retryOut, attempts, slept, rtOther>>

(***************************************************************************)
(* roundRobinSlice                                                         *)
(***************************************************************************)
MaxLen == 4
MaxBatch == 5
CursorSlack == 2
Codes == <<"US", "CA", "GB", "FR", "DE", "JP">>
Catalog(n) == SubSeq(Codes, 1, Min(n, Len(Codes)))

\* slice.push(list[(normalizedCursor + i) % list.length]) for i < limit
SliceFrom(list, nc, lim) ==
  [i \in 1..Max(lim, 0) |-> list[((nc + i - 1) % Len(list)) + 1]]

roundRobinSliceMutNoWrap(list, cursor, size) ==
  IF Len(list) = 0
  THEN [slice |-> <<>>, nextCursor |-> 0]
  ELSE LET normalizedCursor == Max(0, cursor) % Len(list)
           slice == SliceFrom(list, normalizedCursor, Min(size, Len(list)))
       IN [slice |-> slice, nextCursor |-> normalizedCursor + Len(slice)]

roundRobinSliceMutSkip(list, cursor, size) ==
  IF Len(list) = 0
  THEN [slice |-> <<>>, nextCursor |-> 0]
  ELSE LET normalizedCursor == Max(0, cursor) % Len(list)
           slice == SliceFrom(list, normalizedCursor, Min(size, Len(list)))
       IN [slice |-> slice,
           nextCursor |-> (normalizedCursor + Len(slice) + 1) % Len(list)]

roundRobinSlice(list, cursor, size) ==
  IF Len(list) = 0
  THEN [slice |-> <<>>, nextCursor |-> 0]
  ELSE LET normalizedCursor == Max(0, cursor) % Len(list)
           slice == SliceFrom(list, normalizedCursor, Min(size, Len(list)))
       IN [slice |-> slice,
           nextCursor |-> (normalizedCursor + Len(slice)) % Len(list)]

NoOut == [slice |-> <<>>, nextCursor |-> 0, cursor |-> 0, called |-> FALSE]

\* one scheduler call, fed the cursor the previous call returned
NextBatch ==
  /\ mode = "slice"
  /\ rrCalls < MaxLen
  /\ LET out == roundRobinSlice(rrList, rrCursor, rrSize)
     IN /\ rrOut' = [slice |-> out.slice, nextCursor |-> out.nextCursor,
                     cursor |-> rrCursor, called |-> TRUE]
        /\ rrVisited' = rrVisited \o out.slice
        /\ rrCursor' = out.nextCursor
  /\ rrCalls' = rrCalls + 1
  /\ UNCHANGED <<rrList, rrSize, rrStart, rrOther>>

(***************************************************************************)
(* Values: timestamps, error entries, per-(store, country) data            *)
(***************************************************************************)
\* null / undefined
Null == [null |-> TRUE]

\* new Date(ms).toISOString(), and strings that are no date
toISOString(ms) == [tag |-> "iso", ms |-> ms]
NoStamp == [tag |-> "none", ms |-> 0]
BadStamp == [tag |-> "bad", ms |-> 0]

\* new Date(value).getTime(): NaN for a string that does not parse
NaN == [nan |-> TRUE, ms |-> 0]
getTime(stamp) == IF stamp.tag = "iso" THEN [nan |-> FALSE, ms |-> stamp.ms] ELSE NaN

\* Map.set / Map.delete / Map.get
MapSet(m, k, v) == [x \in (DOMAIN m) \cup {k} |-> IF x = k THEN v ELSE m[x]]
MapDelete(m, k) == [x \in (DOMAIN m) \ {k} |-> m[x]]
MapGet(m, k) == IF k \in DOMAIN m THEN m[k] ELSE Null
EmptyMap == <<>>

ErrPreserved == [message |-> "upstream", preserved |-> "true"]
ErrNotPreserved == [message |-> "upstream", preserved |-> "false"]
ErrPlain == [message |-> "upstream", preserved |-> "absent"]

\* { country, store, updatedAt, new, updated, errors } (no preservedAt)
StoreData(store, country, t, new, updated, errors) ==
  [country |-> country, store |-> store, updatedAt |-> toISOString(t),
   preservedAt |-> NoStamp, new |-> new, updated |-> updated, errors |-> errors]

\* what the upstream of one fetch can do: lists, no lists, or an exception
AppleOutcomes ==
  { [kind |-> "ok", new |-> <<"a1">>, updated |-> <<"a2">>, errors |-> <<>>],
    [kind |-> "ok", new |-> <<>>, updated |-> <<>>, errors |-> <<>>],
    [kind |-> "throw", new |-> <<>>, updated |-> <<>>, errors |-> <<>>] }
GoogleOutcomes ==
  { [kind |-> "ok", new |-> <<"g1">>, updated |-> <<"g2">>, errors |-> <<>>],
    [kind |-> "throw", new |-> <<>>, updated |-> <<>>, errors |-> <<>>] }
Outcomes(store) == IF store = "apple" THEN AppleOutcomes ELSE GoogleOutcomes
IsEmptyResult(o) == o.kind = "ok" /\ o.new = <<>> /\ o.updated = <<>>

\* fetchAppleData's return value when it does not throw
fetchAppleData(country, outcome, t) ==
  StoreData("apple", country, t, outcome.new, outcome.updated, outcome.errors)

(***************************************************************************)
(* fetchGoogleData(country, previousData)                                  *)
(***************************************************************************)
fetchGoogleDataMutReplace(country, previousData, outcome, t) ==
  IF outcome.kind = "ok"
  THEN StoreData("google", country, t, outcome.new, outcome.updated, <<>>)
  ELSE IF previousData # Null
       THEN [previousData EXCEPT !.country = country, !.store = "google",
                                 !.preservedAt = toISOString(t),
                                 !.errors = <<ErrPreserved>>]
       ELSE StoreData("google", country, t, <<>>, <<>>, <<ErrPlain>>)

fetchGoogleData(country, previousData, outcome, t) ==
  IF outcome.kind = "ok"
  THEN StoreData("google", country, t, outcome.new, outcome.updated, <<>>)
  ELSE IF previousData # Null
       THEN [previousData EXCEPT !.country = country, !.store = "google",
                                 !.preservedAt = toISOString(t),
                                 !.errors = Append(previousData.errors, ErrPreserved)]
       ELSE StoreData("google", country, t, <<>>, <<>>, <<ErrPlain>>)

(***************************************************************************)
(* The on-demand server                                                    *)
(***************************************************************************)
CACHE_TTL_MS == 300000
ServerStep == CACHE_TTL_MS
MaxTicks == 2
MaxRequests == 3
countryCodes == <<"US", "CA">>
RequestCodes == {"US", "ZZ"}
\* !countryCodes.includes(code) => 404
InCatalogMutAny(code) == code = code

InCatalog(code) == \E i \in 1..Len(countryCodes) : countryCodes[i] = code

\* function isFresh(entry)
isFreshMutStrict(entry, t) ==
  IF entry = Null
  THEN FALSE
  ELSE t - entry.fetchedAt < CACHE_TTL_MS

isFresh(entry, t) ==
  IF entry = Null
  THEN FALSE
  ELSE t - entry.fetchedAt <= CACHE_TTL_MS

\* cache.set(key, { data, fetchedAt: Date.now() })
cacheSetMutFreshOnly(c, key, data, t) ==
  IF data.preservedAt # NoStamp
  THEN c
  ELSE MapSet(c, key, [data |-> data, fetchedAt |-> t])

cacheSet(c, key, data, t) == MapSet(c, key, [data |-> data, fetchedAt |-> t])

SrvState == [cache |-> cache, inFlight |-> inFlight, fetches |-> fetches,
             nFetches |-> nFetches]

\* the freshness check a call evaluated
FreshCheck(fn, entry, stamp, t, ttl, result) ==
  [fn |-> fn, exists |-> entry # Null, stamp |-> stamp, now |-> t, ttl |-> ttl,
   result |-> result]
ServerCheck(force, cached, t) ==
  IF force
  THEN <<>>
  ELSE <<FreshCheck("isFresh", cached,
                    IF cached = Null THEN NaN
                    ELSE [nan |-> FALSE, ms |-> cached.fetchedAt],
                    t, CACHE_TTL_MS, isFresh(cached, t))>>

\* one call of getStoreData and what it returned: a value or a promise
Call(rid, key, force, t, how, fetch, result) ==
  [ev |-> "arrive", rid |-> rid, key |-> key, force |-> force, at |-> t,
   how |-> how, fetch |-> fetch, result |-> result]

\* const promise = (async () => {...})(); inFlight.set(key, promise)
StartFetch(st, key, cached) ==
  [st EXCEPT
     !.nFetches = st.nFetches + 1,
     !.inFlight = MapSet(st.inFlight, key, st.nFetches + 1),
     !.fetches = MapSet(st.fetches, st.nFetches + 1,
                        [key |-> key,
                         prev |-> IF cached = Null THEN Null ELSE cached.data])]

\* getStoreData up to its return: the cache, the in-flight map, a new fetch
getStoreDataMutNoDedup(st, store, country, force, t, rid) ==
  LET key == <<store, country>>
      cached == MapGet(st.cache, key)
  IN IF ~force /\ isFresh(cached, t)
     THEN [st |-> st, check |-> ServerCheck(force, cached, t),
           call |-> Call(rid, key, force, t, "cache", 0, cached.data)]
     ELSE [st |-> StartFetch(st, key, cached),
           check |-> ServerCheck(force, cached, t),
           call |-> Call(rid, key, force, t, "started", st.nFetches + 1, Null)]

getStoreDataMutIgnoreForce(st, store, country, force, t, rid) ==
  LET key == <<store, country>>
      cached == MapGet(st.cache, key)
  IN IF isFresh(cached, t)
     THEN [st |-> st, check |-> ServerCheck(FALSE, cached, t),
           call |-> Call(rid, key, force, t, "cache", 0, cached.data)]
     ELSE IF key \in DOMAIN st.inFlight
     THEN [st |-> st, check |-> ServerCheck(FALSE, cached, t),
           call |-> Call(rid, key, force, t, "attached", st.inFlight[key], Null)]
     ELSE [st |-> StartFetch(st, key, cached),
           check |-> ServerCheck(FALSE, cached, t),
           call |-> Call(rid, key, force, t, "started", st.nFetches + 1, Null)]

getStoreData(st, store, country, force, t, rid) ==
  LET key == <<store, country>>
      cached == MapGet(st.cache, key)
  IN IF ~force /\ isFresh(cached, t)
     THEN [st |-> st, check |-> ServerCheck(force, cached, t),
           call |-> Call(rid, key, force, t, "cache", 0, cached.data)]
     ELSE IF key \in DOMAIN st.inFlight
     THEN [st |-> st, check |-> ServerCheck(force, cached, t),
           call |-> Call(rid, key, force, t, "attached", st.inFlight[key], Null)]
     ELSE [st |-> StartFetch(st, key, cached),
           check |-> ServerCheck(force, cached, t),
           call |-> Call(rid, key, force, t, "started", st.nFetches + 1, Null)]

\* the async body of getStoreData: try { fetch } catch { fallback }
getStoreDataFetchMutRethrow(f, outcome, t) ==
  IF outcome.kind = "throw"
  THEN Null
  ELSE IF f.key[1] = "apple"
       THEN fetchAppleData(f.key[2], outcome, t)
       ELSE fetchGoogleData(f.key[2], f.prev, outcome, t)

getStoreDataFetch(f, outcome, t) ==
  LET store == f.key[1]
      country == f.key[2]
  IN IF store = "apple"
     THEN IF outcome.kind # "throw"
          THEN fetchAppleData(country, outcome, t)
          ELSE IF f.prev # Null
               THEN [f.prev EXCEPT !.preservedAt = toISOString(t),
                                   !.errors = Append(f.prev.errors, ErrPreserved)]
               ELSE StoreData(store, country, t, <<>>, <<>>, <<ErrPlain>>)
     ELSE fetchGoogleData(country, f.prev, outcome, t)

\* what a call awaiting a promise holds on to
Waiter(c) == [rid |-> c.rid, key |-> c.key, how |-> c.how, fetch |-> c.fetch]
Pending(cs) ==
  LET P(c) == c.how # "cache"
      w == SelectSeq(cs, P)
  IN [i \in 1..Len(w) |-> Waiter(w[i])]
Awaiting(cs, id) == LET P(c) == c.fetch = id IN SelectSeq(cs, P)
NotAwaiting(cs, id) == LET P(c) == c.fetch # id IN SelectSeq(cs, P)
\* a promise settles: every call awaiting it gets its value
Deliver(cs, id, data) ==
  LET w == Awaiting(cs, id)
  IN [i \in 1..Len(w) |->
        [ev |-> "deliver", rid |-> w[i].rid, key |-> w[i].key, how |-> w[i].how,
         fetch |-> w[i].fetch, result |-> data]]

NoEmit == [path |-> "none", kind |-> "none", key |-> <<"none", "none">>,
           prev |-> Null, value |-> Null, at |-> 0]
Emit(path, outcome, key, prev, value, t) ==
  [path |-> path,
   kind |-> IF outcome.kind = "throw" THEN "fail"
            ELSE IF IsEmptyResult(outcome) THEN "empty" ELSE "ok",
   key |-> key, prev |-> prev, value |-> value, at |-> t]

\* handleApi: GET /api/country/<code>[?refresh=1]
HandleApi(code, force) ==
  /\ mode = "server"
  /\ nRequests < MaxRequests
  /\ nRequests' = nRequests + 1
  /\ IF ~InCatalog(code)
     THEN /\ events' = <<Call(nRequests + 1, <<"none", code>>, force, now,
                              "rejected", 0, Null)>>
          /\ checks' = <<>>
          /\ UNCHANGED <<cache, inFlight, fetches, nFetches, calls>>
     ELSE LET a == getStoreData(SrvState, "apple", code, force, now, nRequests + 1)
              g == getStoreData(a.st, "google", code, force, now, nRequests + 1)
          IN /\ cache' = g.st.cache
             /\ inFlight' = g.st.inFlight
             /\ fetches' = g.st.fetches
             /\ nFetches' = g.st.nFetches
             /\ checks' = a.check \o g.check
             /\ events' = <<a.call, g.call>>
             /\ calls' = calls \o Pending(<<a.call, g.call>>)
  /\ lastEmit' = NoEmit
  /\ UNCHANGED <<completed, now, srvOther>>

\* function toSummaryEntry(data)
toSummaryEntryMutErrors(data) ==
  IF data = Null
  THEN Null
  ELSE [updatedAt |-> data.updatedAt, newCount |-> Len(data.new),
        updatedCount |-> Len(data.updated), errorCount |-> 0]

toSummaryEntry(data) ==
  IF data = Null
  THEN Null
  ELSE [updatedAt |-> data.updatedAt, newCount |-> Len(data.new),
        updatedCount |-> Len(data.updated), errorCount |-> Len(data.errors)]

\* cache.get(`${store}:${code}`)?.data
cachedData(c, key) == IF key \in DOMAIN c THEN c[key].data ELSE Null

\* function buildSummary()
buildSummary(c, t) ==
  [generatedAt |-> toISOString(t),
   meta |-> [cacheTtlMs |-> CACHE_TTL_MS, countries |-> Len(countryCodes)],
   countries |->
     [k \in 1..Len(countryCodes) |->
        [code |-> countryCodes[k],
         apple |-> toSummaryEntry(cachedData(c, <<"apple", countryCodes[k]>>)),
         google |-> toSummaryEntry(cachedData(c, <<"google", countryCodes[k]>>))]]]

\* handleApi: GET /api/summary
ApiSummary ==
  /\ mode = "server"
  /\ nRequests < MaxRequests
  /\ nRequests' = nRequests + 1
  /\ events' = <<[ev |-> "summary", rid |-> nRequests + 1,
                  key |-> <<"none", "summary">>, force |-> FALSE, at |-> now,
                  how |-> "summary", fetch |-> 0,
                  result |-> buildSummary(cache, now)]>>
  /\ checks' = <<>>
  /\ lastEmit' = NoEmit
  /\ UNCHANGED <<cache, inFlight, fetches, nFetches, calls, completed, now,
                 srvOther>>

CompleteFetchMutKeepOnFail(id, outcome) ==
  /\ mode = "server"
  /\ id \in DOMAIN fetches
  /\ outcome \in Outcomes(fetches[id].key[1])
  /\ LET f == fetches[id]
         data == getStoreDataFetch(f, outcome, now)
         before == MapGet(cache, f.key)
     IN /\ cache' = cacheSet(cache, f.key, data, now)
        /\ inFlight' = IF outcome.kind = "throw" THEN inFlight
                       ELSE MapDelete(inFlight, f.key)
        /\ fetches' = MapDelete(fetches, id)
        /\ calls' = NotAwaiting(calls, id)
        /\ events' = Deliver(calls, id, data)
        /\ completed' = MapSet(completed, f.key, [at |-> now, data |-> data])
        /\ lastEmit' = Emit(IF f.key[1] = "apple" THEN "onDemand" ELSE "google",
                            outcome, f.key,
                            IF before = Null THEN Null ELSE before.data, data, now)
  /\ checks' = <<>>
  /\ UNCHANGED <<now, nFetches, nRequests, srvOther>>

\* the upstream fetch of getStoreData's promise `id` settles
CompleteFetch(id, outcome) ==
  /\ mode = "server"
  /\ id \in DOMAIN fetches
  /\ outcome \in Outcomes(fetches[id].key[1])
  /\ LET f == fetches[id]
         data == getStoreDataFetch(f, outcome, now)
         before == MapGet(cache, f.key)
     IN /\ cache' = cacheSet(cache, f.key, data, now)
        /\ inFlight' = MapDelete(inFlight, f.key)
        /\ fetches' = MapDelete(fetches, id)
        /\ calls' = NotAwaiting(calls, id)
        /\ events' = Deliver(calls, id, data)
        /\ completed' = MapSet(completed, f.key, [at |-> now, data |-> data])
        /\ lastEmit' = Emit(IF f.key[1] = "apple" THEN "onDemand" ELSE "google",
                            outcome, f.key,
                            IF before = Null THEN Null ELSE before.data, data, now)
  /\ checks' = <<>>
  /\ UNCHANGED <<now, nFetches, nRequests, srvOther>>

\* time passes
Tick ==
  /\ mode = "server"
  /\ now + ServerStep <= MaxTicks * ServerStep
  /\ now' = now + ServerStep
  /\ checks' = <<>>
  /\ events' = <<>>
  /\ lastEmit' = NoEmit
  /\ UNCHANGED <<srvVars, srvOther>>

(***************************************************************************)
(* The batch build: build() of build.mjs                                   *)
(***************************************************************************)
BUILD_LIMIT == 4
RunInterval == 600000
MaxRuns == 2
\* the contents of countries.json a run may find
CountryLists == {<<>>, <<"US">>, <<"US", "CA">>}
\* --limit=<n>, --full, --countries=<list>
RunArgs ==
  { [full |-> TRUE, limit |-> 20, countries |-> Null],
    [full |-> FALSE, limit |-> 1, countries |-> Null],
    [full |-> FALSE, limit |-> 20, countries |-> [list |-> <<" ca", "ZZ">>]] }

Contains(seq, x) == \E i \in 1..Len(seq) : seq[i] = x
Filter(seq, keep) == LET P(x) == Contains(keep, x) IN SelectSeq(seq, P)

\* meta.incrementalCursor ?? 0, with loadJson's fallback { incrementalCursor: 0 }
LoadedCursor == IF meta = Null THEN 0 ELSE meta.incrementalCursor

\* code.trim().toUpperCase() on the codes a --countries list can hold
normalizeCode(code) ==
  CASE code = " ca" -> "CA"
    [] code = "us" -> "US"
    [] OTHER -> code

\* args.countries.split(',').map((code) => code.trim().toUpperCase())
normalizedCountries(args) ==
  IF args.countries = Null
  THEN <<>>
  ELSE [k \in 1..Len(args.countries.list) |-> normalizeCode(args.countries.list[k])]

TargetsMutAdvance(args, countries) ==
  LET rr == roundRobinSlice(countries, LoadedCursor, args.limit)
  IN IF args.countries # Null /\ Len(normalizedCountries(args)) > 0
     THEN [target |-> Filter(countries, normalizedCountries(args)),
           nextCursor |-> rr.nextCursor, sliced |-> FALSE]
     ELSE IF ~args.full
     THEN [target |-> rr.slice, nextCursor |-> rr.nextCursor, sliced |-> TRUE]
     ELSE [target |-> countries, nextCursor |-> LoadedCursor, sliced |-> FALSE]

\* lines 47-64: the targets, the cursor to persist, and whether
\* roundRobinSlice was called
Targets(args, countries) ==
  IF args.countries # Null /\ Len(normalizedCountries(args)) > 0
  THEN [target |-> Filter(countries, normalizedCountries(args)),
        nextCursor |-> LoadedCursor, sliced |-> FALSE]
  ELSE IF ~args.full
  THEN LET rr == roundRobinSlice(countries, LoadedCursor, args.limit)
       IN [target |-> rr.slice, nextCursor |-> rr.nextCursor, sliced |-> TRUE]
  ELSE [target |-> countries, nextCursor |-> LoadedCursor, sliced |-> FALSE]

NoRun == [phase |-> "idle", args |-> Null, countries |-> <<>>, target |-> <<>>,
          nextCursor |-> 0, cursor |-> 0, sliced |-> FALSE]
NewTask(country) ==
  [country |-> country, pc |-> "queued", previousApple |-> Null,
   previousGoogle |-> Null, appleData |-> Null, googleData |-> Null]

StartRunMutEarlyCursor(args, countries) ==
  /\ mode = "build"
  /\ run.phase = "idle"
  /\ nRuns < MaxRuns
  /\ nRuns' = nRuns + 1
  /\ now' = now + RunInterval
  /\ LET tg == Targets(args, countries)
     IN /\ run' = [phase |-> "tasks", args |-> args, countries |-> countries,
                   target |-> tg.target, nextCursor |-> tg.nextCursor,
                   cursor |-> LoadedCursor, sliced |-> tg.sliced]
        /\ tasks' = [i \in 1..Len(tg.target) |-> NewTask(tg.target[i])]
        /\ meta' = [lastRunAt |-> toISOString(now'),
                    runType |-> IF args.full THEN "full" ELSE "incremental",
                    incrementalCursor |-> tg.nextCursor,
                    incrementalSize |-> args.limit,
                    countriesProcessed |-> tg.target]
  /\ lastEmit' = NoEmit
  /\ UNCHANGED <<files, summary, bldOther>>

\* build() up to the first task: args, meta, countries, targets
StartRun(args, countries) ==
  /\ mode = "build"
  /\ run.phase = "idle"
  /\ nRuns < MaxRuns
  /\ nRuns' = nRuns + 1
  /\ now' = now + RunInterval
  /\ LET tg == Targets(args, countries)
     IN /\ run' = [phase |-> "tasks", args |-> args, countries |-> countries,
                   target |-> tg.target, nextCursor |-> tg.nextCursor,
                   cursor |-> LoadedCursor, sliced |-> tg.sliced]
        /\ tasks' = [i \in 1..Len(tg.target) |-> NewTask(tg.target[i])]
  /\ lastEmit' = NoEmit
  /\ UNCHANGED <<files, meta, summary, bldOther>>

ActiveTasks == {i \in 1..Len(tasks) : tasks[i].pc \notin {"queued", "done"}}

\* the limiter starts the task: it loads the two previous records
TaskStart(i) ==
  /\ mode = "build"
  /\ run.phase = "tasks"
  /\ i \in 1..Len(tasks)
  /\ tasks[i].pc = "queued"
  /\ \A j \in 1..(i - 1) : tasks[j].pc # "queued"
  /\ Cardinality(ActiveTasks) < BUILD_LIMIT
  /\ tasks' = [tasks EXCEPT
        ![i].pc = "apple",
        ![i].previousApple = MapGet(files, <<"apple", tasks[i].country>>),
        ![i].previousGoogle = MapGet(files, <<"google", tasks[i].country>>)]
  /\ lastEmit' = NoEmit
  /\ UNCHANGED <<files, meta, summary, run, nRuns, now, bldOther>>

\* lines 76-92: try { fetchAppleData } catch { previousApple ?? empty }
buildAppleMutFlag(country, previousApple, outcome, t) ==
  IF outcome.kind # "throw"
  THEN fetchAppleData(country, outcome, t)
  ELSE IF previousApple # Null
       THEN [previousApple EXCEPT
               !.errors = Append(previousApple.errors, ErrPreserved)]
       ELSE StoreData("apple", country, t, <<>>, <<>>, <<ErrPreserved>>)

buildAppleMutNoMark(country, previousApple, outcome, t) ==
  IF outcome.kind # "throw"
  THEN fetchAppleData(country, outcome, t)
  ELSE IF previousApple # Null
       THEN [previousApple EXCEPT
               !.errors = Append(previousApple.errors, ErrNotPreserved)]
       ELSE StoreData("apple", country, t, <<>>, <<>>, <<ErrNotPreserved>>)

buildApple(country, previousApple, outcome, t) ==
  IF outcome.kind # "throw"
  THEN fetchAppleData(country, outcome, t)
  ELSE IF previousApple # Null
       THEN [previousApple EXCEPT
               !.errors = Append(previousApple.errors, ErrPreserved)]
       ELSE StoreData("apple", country, t, <<>>, <<>>, <<ErrNotPreserved>>)

TaskAppleMutAbort(i, outcome) ==
  /\ mode = "build"
  /\ i \in 1..Len(tasks)
  /\ tasks[i].pc = "apple"
  /\ outcome \in AppleOutcomes
  /\ LET c == tasks[i].country
         data == buildApple(c, tasks[i].previousApple, outcome, now)
     IN /\ IF outcome.kind = "throw"
           THEN run' = NoRun /\ tasks' = <<>>
           ELSE /\ tasks' = [tasks EXCEPT ![i].pc = "google", ![i].appleData = data]
                /\ run' = run
        /\ lastEmit' = Emit("buildApple", outcome, <<"apple", c>>,
                            MapGet(files, <<"apple", c>>), data, now)
  /\ UNCHANGED <<files, meta, summary, nRuns, now, bldOther>>

TaskAppleMutSkipGoogle(i, outcome) ==
  /\ mode = "build"
  /\ i \in 1..Len(tasks)
  /\ tasks[i].pc = "apple"
  /\ outcome \in AppleOutcomes
  /\ LET c == tasks[i].country
         data == buildApple(c, tasks[i].previousApple, outcome, now)
     IN /\ tasks' = IF outcome.kind = "throw"
                    THEN [tasks EXCEPT
                            ![i].pc = "saveApple", ![i].appleData = data,
                            ![i].googleData =
                               StoreData("google", c, now, <<>>, <<>>, <<ErrPlain>>)]
                    ELSE [tasks EXCEPT ![i].pc = "google", ![i].appleData = data]
        /\ lastEmit' = Emit("buildApple", outcome, <<"apple", c>>,
                            MapGet(files, <<"apple", c>>), data, now)
  /\ UNCHANGED <<files, meta, summary, run, nRuns, now, bldOther>>

\* lines 76-92 inside the task; the task goes on to Google whatever happened
TaskApple(i, outcome) ==
  /\ mode = "build"
  /\ i \in 1..Len(tasks)
  /\ tasks[i].pc = "apple"
  /\ outcome \in AppleOutcomes
  /\ LET c == tasks[i].country
         data == buildApple(c, tasks[i].previousApple, outcome, now)
     IN /\ tasks' = [tasks EXCEPT ![i].pc = "google", ![i].appleData = data]
        /\ lastEmit' = Emit("buildApple", outcome, <<"apple", c>>,
                            MapGet(files, <<"apple", c>>), data, now)
  /\ UNCHANGED <<files, meta, summary, run, nRuns, now, bldOther>>

\* line 94: const googleData = await fetchGoogleData(country, previousGoogle)
TaskGoogle(i, outcome) ==
  /\ mode = "build"
  /\ i \in 1..Len(tasks)
  /\ tasks[i].pc = "google"
  /\ outcome \in GoogleOutcomes
  /\ LET c == tasks[i].country
         data == fetchGoogleData(c, tasks[i].previousGoogle, outcome, now)
     IN /\ tasks' = [tasks EXCEPT ![i].pc = "saveApple", ![i].googleData = data]
        /\ lastEmit' = Emit("google", outcome, <<"google", c>>,
                            MapGet(files, <<"google", c>>), data, now)
  /\ UNCHANGED <<files, meta, summary, run, nRuns, now, bldOther>>

\* line 96: await saveJson(applePath, appleData)
TaskSaveApple(i) ==
  /\ mode = "build"
  /\ i \in 1..Len(tasks)
  /\ tasks[i].pc = "saveApple"
  /\ files' = MapSet(files, <<"apple", tasks[i].country>>, tasks[i].appleData)
  /\ tasks' = [tasks EXCEPT ![i].pc = "saveGoogle"]
  /\ lastEmit' = NoEmit
  /\ UNCHANGED <<meta, summary, run, nRuns, now, bldOther>>

\* line 97: await saveJson(googlePath, googleData); the task returns
TaskSaveGoogle(i) ==
  /\ mode = "build"
  /\ i \in 1..Len(tasks)
  /\ tasks[i].pc = "saveGoogle"
  /\ files' = MapSet(files, <<"google", tasks[i].country>>, tasks[i].googleData)
  /\ tasks' = [tasks EXCEPT ![i].pc = "done"]
  /\ lastEmit' = NoEmit
  /\ UNCHANGED <<meta, summary, run, nRuns, now, bldOther>>

\* lines 112-127: the projection of one persisted record
SummaryEntry(data) ==
  IF data = Null
  THEN Null
  ELSE [updatedAt |-> data.updatedAt, newCount |-> Len(data.new),
        updatedCount |-> Len(data.updated), errorCount |-> Len(data.errors)]

WriteSummaryMutTargetsOnly ==
  /\ mode = "build"
  /\ run.phase = "tasks"
  /\ \A i \in 1..Len(tasks) : tasks[i].pc = "done"
  /\ summary' =
       [generatedAt |-> toISOString(now),
        runType |-> IF run.args.full THEN "full" ELSE "incremental",
        countriesProcessed |-> run.target,
        totalCountries |-> Len(run.countries),
        countries |->
          [k \in 1..Len(run.target) |->
             [code |-> run.target[k],
              apple |-> SummaryEntry(MapGet(files, <<"apple", run.target[k]>>)),
              google |-> SummaryEntry(MapGet(files, <<"google", run.target[k]>>))]]]
  /\ run' = [run EXCEPT !.phase = "meta"]
  /\ lastEmit' = NoEmit
  /\ UNCHANGED <<files, meta, tasks, nRuns, now, bldOther>>

\* lines 104-143: after Promise.all, read every record, write the summary
WriteSummary ==
  /\ mode = "build"
  /\ run.phase = "tasks"
  /\ \A i \in 1..Len(tasks) : tasks[i].pc = "done"
  /\ summary' =
       [generatedAt |-> toISOString(now),
        runType |-> IF run.args.full THEN "full" ELSE "incremental",
        countriesProcessed |-> run.target,
        totalCountries |-> Len(run.countries),
        countries |->
          [k \in 1..Len(run.countries) |->
             [code |-> run.countries[k],
              apple |-> SummaryEntry(MapGet(files, <<"apple", run.countries[k]>>)),
              google |-> SummaryEntry(MapGet(files, <<"google", run.countries[k]>>))]]]
  /\ run' = [run EXCEPT !.phase = "meta"]
  /\ lastEmit' = NoEmit
  /\ UNCHANGED <<files, meta, tasks, nRuns, now, bldOther>>

\* lines 145-151: await saveJson(META_PATH, {...}); build() returns
SaveMeta ==
  /\ mode = "build"
  /\ run.phase = "meta"
  /\ meta' = [lastRunAt |-> toISOString(now),
              runType |-> IF run.args.full THEN "full" ELSE "incremental",
              incrementalCursor |-> IF run.args.full THEN run.cursor
                                    ELSE run.nextCursor,
              incrementalSize |-> run.args.limit,
              countriesProcessed |-> run.target]
  /\ run' = NoRun
  /\ tasks' = <<>>
  /\ lastEmit' = NoEmit
  /\ UNCHANGED <<files, summary, nRuns, now, bldOther>>

\* build().catch: an awaited storage call (loadJson other than ENOENT,
\* saveJson) rejects before the final write; console.error, process.exit(1)
RunFails ==
  /\ mode = "build"
  /\ run.phase \in {"tasks", "meta"}
  /\ run' = NoRun
  /\ tasks' = <<>>
  /\ lastEmit' = NoEmit
  /\ UNCHANGED <<files, meta, summary, nRuns, now, bldOther>>

(***************************************************************************)
(* The iTunes lookup cache: lookupItunes, isCacheFresh, updateCache        *)
(***************************************************************************)
ITUNES_TTL_MS == 604800000
LookupStep == ITUNES_TTL_MS
MaxLookups == 2
\* two fetchAppleData calls running at once
Workers == {"w1", "w2"}
ItunesIds == {"id1", "id2"}
\* what cache/itunes_cache.json may hold when the process starts
FoundEntries ==
  { [data |-> "app", updatedAt |-> toISOString(0)],
    [data |-> "app", updatedAt |-> BadStamp],
    [data |-> "app", updatedAt |-> NoStamp] }

\* export function isCacheFresh(entry, ttlMs)
isCacheFresh(entry, ttlMs, t) ==
  IF entry = Null \/ entry.updatedAt = NoStamp
  THEN FALSE
  ELSE LET updatedAt == getTime(entry.updatedAt)
       IN IF updatedAt.nan
          THEN FALSE
          ELSE t - updatedAt.ms <= ttlMs

\* export function updateCache(cache, key, data)
updateCache(c, key, data, t) ==
  MapSet(c, key, [data |-> data, updatedAt |-> toISOString(t)])

\* `put` is history: the ids this call has passed to updateCache
NoWorker == [pc |-> "idle", cache |-> EmptyMap, n |-> 0, put |-> {}]

\* fetchAppleData: const cache = await loadItunesCache()
LoadItunesCache(w) ==
  /\ mode = "lookup"
  /\ workers[w].pc = "idle"
  /\ workers' = [workers EXCEPT ![w] = [pc |-> "lookups", cache |-> itunesFile,
                                        n |-> 0, put |-> {}]]
  /\ checks' = <<>>
  /\ UNCHANGED <<itunesFile, now, lkOther>>

\* lookupItunes(cache, id, country): a fresh entry, or a lookup that
\* succeeds (the entry is updated) or throws (the caller returns null)
LookupItunes(w, id, ok) ==
  /\ mode = "lookup"
  /\ workers[w].pc = "lookups"
  /\ workers[w].n < MaxLookups
  /\ LET cached == MapGet(workers[w].cache, id)
         fresh == isCacheFresh(cached, ITUNES_TTL_MS, now)
     IN /\ checks' = <<FreshCheck("isCacheFresh", cached,
                                  IF cached = Null THEN NaN
                                  ELSE getTime(cached.updatedAt),
                                  now, ITUNES_TTL_MS, fresh)>>
        /\ workers' = [workers EXCEPT
              ![w].n = workers[w].n + 1,
              ![w].cache = IF fresh \/ ~ok THEN workers[w].cache
                           ELSE updateCache(workers[w].cache, id, "app", now),
              ![w].put = IF fresh \/ ~ok THEN workers[w].put
                         ELSE workers[w].put \cup {id}]
  /\ UNCHANGED <<itunesFile, now, lkOther>>

\* await saveItunesCache(cache); fetchAppleData returns
SaveItunesCache(w) ==
  /\ mode = "lookup"
  /\ workers[w].pc = "lookups"
  /\ itunesFile' = workers[w].cache
  /\ workers' = [workers EXCEPT
                    ![w] = [NoWorker EXCEPT !.pc = "done", !.put = workers[w].put]]
  /\ checks' = <<>>
  /\ UNCHANGED <<now, lkOther>>

\* time passes
LookupTick ==
  /\ mode = "lookup"
  /\ now + LookupStep <= MaxTicks * LookupStep
  /\ now' = now + LookupStep
  /\ checks' = <<>>
  /\ UNCHANGED <<lkVars, lkOther>>

(***************************************************************************)
(* Initial states                                                          *)
(***************************************************************************)
LimIdle ==
  /\ limit = 1
  /\ active = 0
  /\ queue = <<>>
  /\ tstate = [t \in Tasks |-> "new"]
  /\ micro = <<>>
  /\ runs = [t \in Tasks |-> 0]
  /\ fnSettled = [t \in Tasks |-> Unsettled]
  /\ promise = [t \in Tasks |-> Unsettled]
  /\ submitted = <<>>
  /\ waited = {}

RtIdle ==
  /\ retryPc = "idle"
  /\ retryI = 0
  /\ lastError = NoError
  /\ retryOut = NoOutcome
  /\ attempts = <<>>
  /\ slept = <<>>
  /\ elapsed = 0

RrIdle ==
  /\ rrList = <<>>
  /\ rrCursor = 0
  /\ rrSize = 0
  /\ rrStart = 0
  /\ rrOut = NoOut
  /\ rrVisited = <<>>
  /\ rrCalls = 0

SrvIdle ==
  /\ cache = EmptyMap
  /\ inFlight = EmptyMap
  /\ fetches = EmptyMap
  /\ nFetches = 0
  /\ calls = <<>>
  /\ nRequests = 0
  /\ completed = EmptyMap

BldIdle ==
  /\ files = EmptyMap
  /\ meta = Null
  /\ summary = Null
  /\ run = NoRun
  /\ tasks = <<>>
  /\ nRuns = 0

LkIdle ==
  /\ itunesFile = EmptyMap
  /\ workers = [w \in Workers |-> NoWorker]

ObsIdle ==
  /\ now = 0
  /\ checks = <<>>
  /\ events = <<>>
  /\ lastEmit = NoEmit

\* createLimiter(limit): active = 0, queue = []
InitLimiter ==
  /\ mode = "limiter"
  /\ limit \in 1..MaxLimit
  /\ active = 0
  /\ queue = <<>>
  /\ tstate = [t \in Tasks |-> "new"]
  /\ micro = <<>>
  /\ runs = [t \in Tasks |-> 0]
  /\ fnSettled = [t \in Tasks |-> Unsettled]
  /\ promise = [t \in Tasks |-> Unsettled]
  /\ submitted = <<>>
  /\ waited = {}
  /\ RrIdle
  /\ RtIdle
  /\ SrvIdle
  /\ BldIdle
  /\ LkIdle
  /\ ObsIdle

InitSlice ==
  /\ mode = "slice"
  /\ \E n \in 0..MaxLen : rrList = Catalog(n)
  /\ rrCursor \in (0 - CursorSlack)..(MaxLen + CursorSlack)
  /\ rrSize \in 0..MaxBatch
  /\ rrStart = rrCursor
  /\ rrOut = NoOut
  /\ rrVisited = <<>>
  /\ rrCalls = 0
  /\ LimIdle
  /\ RtIdle
  /\ SrvIdle
  /\ BldIdle
  /\ LkIdle
  /\ ObsIdle

\* server start: const cache = new Map(); const inFlight = new Map()
InitServer ==
  /\ mode = "server"
  /\ SrvIdle
  /\ BldIdle
  /\ LkIdle
  /\ ObsIdle
  /\ LimIdle
  /\ RtIdle
  /\ RrIdle

\* a checkout with no data/ directory yet
InitBuild ==
  /\ mode = "build"
  /\ BldIdle
  /\ SrvIdle
  /\ LkIdle
  /\ ObsIdle
  /\ LimIdle
  /\ RtIdle
  /\ RrIdle

NextLimiter ==
  \/ \E t \in Tasks : Submit(t)
  \/ \E t \in Tasks : FnStart(t)
  \/ \E t \in Tasks, ok \in BOOLEAN : FnSettle(t, ok)
  \/ \E t \in Tasks : OnFulfilled(t)
  \/ \E t \in Tasks : OnRejected(t)

NextSlice == NextBatch

NextServer ==
  \/ \E code \in RequestCodes, force \in BOOLEAN : HandleApi(code, force)
  \/ ApiSummary
  \/ \E id \in 1..(2 * MaxRequests), o \in AppleOutcomes \cup GoogleOutcomes :
       CompleteFetch(id, o)
  \/ Tick

SpecLimiter == InitLimiter /\ [][NextLimiter]_vars
\* microtasks run, and every task that was started settles
SpecLimiterLive ==
  /\ SpecLimiter
  /\ WF_vars(\E t \in Tasks : FnStart(t))
  /\ WF_vars(\E t \in Tasks, ok \in BOOLEAN : FnSettle(t, ok))
  /\ WF_vars(\E t \in Tasks : OnFulfilled(t))
  /\ WF_vars(\E t \in Tasks : OnRejected(t))
SpecSlice == InitSlice /\ [][NextSlice]_vars
\* a process that runs fetchAppleData, with the cache file it finds
InitLookup ==
  /\ mode = "lookup"
  /\ \/ itunesFile = EmptyMap
     \/ \E e \in FoundEntries : itunesFile = MapSet(EmptyMap, "id1", e)
  /\ workers = [w \in Workers |-> NoWorker]
  /\ ObsIdle
  /\ SrvIdle
  /\ BldIdle
  /\ LimIdle
  /\ RtIdle
  /\ RrIdle

NextLookup ==
  \/ \E w \in Workers : LoadItunesCache(w)
  \/ \E w \in Workers, id \in ItunesIds, ok \in BOOLEAN : LookupItunes(w, id, ok)
  \/ \E w \in Workers : SaveItunesCache(w)
  \/ LookupTick

NextBuild ==
  \/ \E args \in RunArgs, countries \in CountryLists : StartRun(args, countries)
  \/ \E i \in 1..Len(tasks) : TaskStart(i)
  \/ \E i \in 1..Len(tasks), o \in AppleOutcomes : TaskApple(i, o)
  \/ \E i \in 1..Len(tasks), o \in GoogleOutcomes : TaskGoogle(i, o)
  \/ \E i \in 1..Len(tasks) : TaskSaveApple(i)
  \/ \E i \in 1..Len(tasks) : TaskSaveGoogle(i)
  \/ WriteSummary
  \/ SaveMeta

\* one call of fetchWithRetry(url)
InitRetry ==
  /\ mode = "retry"
  /\ RtIdle
  /\ LimIdle
  /\ RrIdle
  /\ SrvIdle
  /\ BldIdle
  /\ LkIdle
  /\ ObsIdle

NextRetry ==
  \/ fetchWithRetry
  \/ \E v \in JsonValues : FetchJsonOk(v)
  \/ \E kind \in ErrorKinds : FetchJsonFail(kind)
  \/ SleepDone

SpecRetry == InitRetry /\ [][NextRetry]_vars
\* every awaited fetchJson settles and every sleep timer fires
SpecRetryLive == SpecRetry /\ WF_vars(NextRetry)
SpecServer == InitServer /\ [][NextServer]_vars
SpecBuild == InitBuild /\ [][NextBuild]_vars
\* every awaited read, write and upstream call of a run settles
SpecBuildLive == SpecBuild /\ WF_vars(NextBuild)
\* runs in which storage calls may reject
SpecBuildFaulty == InitBuild /\ [][NextBuild \/ RunFails]_vars
SpecLookup == InitLookup /\ [][NextLookup]_vars
\* the two places a refresh is settled: the server and the batch build
SpecRefresh == (InitServer \/ InitBuild) /\ [][NextServer \/ NextBuild]_vars
\* the two freshness checks: isFresh of the server, isCacheFresh of the lookups
SpecFresh == (InitServer \/ InitLookup) /\ [][NextServer \/ NextLookup]_vars

(***************************************************************************)
(* C1: with limit N >= 1, in every reachable state the number of tasks     *)
(* that have started and not yet settled is at most N.                     *)
(***************************************************************************)
C1_AtMostLimitRunning ==
  mode = "limiter" => Cardinality(Running) <= limit

C1_Witness ==
  /\ mode = "limiter"
  /\ Cardinality(Running) = limit
  /\ Len(queue) > 0
  /\ \E t \in Tasks : tstate[t] = "rejected"

(***************************************************************************)
(* C3 (as amended): roundRobinSlice returns the batch whose i-th item is   *)
(* catalog[(nc + i) mod len] for i < min(batchSize, len) and nextCursor =  *)
(* (nc + batch length) mod len, where nc is cursor mod len for a cursor    *)
(* >= 0 and 0 for a negative cursor; an empty catalog gives an empty batch *)
(* and cursor 0.                                                           *)
(***************************************************************************)
SliceIs(nc) ==
  LET L == Len(rrList)
      n == Max(0, Min(rrSize, L))
  IN /\ Len(rrOut.slice) = n
     /\ \A i \in 0..(n - 1) : rrOut.slice[i + 1] = rrList[((nc + i) % L) + 1]
     /\ rrOut.nextCursor = (nc + n) % L

C3_SliceFromClampedCursor ==
  (mode = "slice" /\ rrOut.called) =>
    IF Len(rrList) = 0
    THEN rrOut.slice = <<>> /\ rrOut.nextCursor = 0
    ELSE SliceIs(IF rrOut.cursor < 0 THEN 0 ELSE rrOut.cursor % Len(rrList))

\* C3 as stated: the normalized cursor is cursor mod len for every integer
\* cursor, negative ones included.
C3_SliceFromCursorModLen ==
  (mode = "slice" /\ rrOut.called) =>
    IF Len(rrList) = 0
    THEN rrOut.slice = <<>> /\ rrOut.nextCursor = 0
    ELSE SliceIs(rrOut.cursor % Len(rrList))

\* the spec's example: [US,CA,GB,FR], cursor 3, batchSize 2
C3_Witness ==
  /\ mode = "slice"
  /\ rrOut.called
  /\ rrList = <<"US", "CA", "GB", "FR">>
  /\ rrOut.cursor = 3
  /\ rrSize = 2
  /\ rrOut.slice = <<"FR", "US">>
  /\ rrOut.nextCursor = 1

(***************************************************************************)
(* C4: for a non-empty catalog and batchSize >= 1, feeding each call the   *)
(* cursor the previous call returned, the keys visited are the catalog in  *)
(* catalog order from the starting position (the starting cursor when it   *)
(* is in range), no key repeated before all were visited, and              *)
(* ceil(len/batchSize) calls visit every key.                              *)
(***************************************************************************)
CeilDiv(a, b) == (a + b - 1) \div b

SeqToSet(seq) == {seq[i] : i \in 1..Len(seq)}
Arrivals == {e \in SeqToSet(events) : e.ev = "arrive" /\ e.how # "rejected"}
Deliveries == {e \in SeqToSet(events) : e.ev = "deliver"}
StartedNow == {e.fetch : e \in {a \in Arrivals : a.how = "started"}}
\* the fetches for `key` that were running before the last step
InFlightBefore(key) ==
  {id \in DOMAIN fetches : fetches[id].key = key /\ id \notin StartedNow}
CachedFresh(e) ==
  /\ e.key \in DOMAIN cache
  /\ e.at - cache[e.key].fetchedAt <= CACHE_TTL_MS

OneFetchPerKey ==
  /\ \A i, j \in DOMAIN fetches : fetches[i].key = fetches[j].key => i = j
  /\ \A k \in 1..Len(calls) :
       /\ calls[k].fetch \in DOMAIN fetches
       /\ fetches[calls[k].fetch].key = calls[k].key
       /\ calls[k].key \in DOMAIN inFlight
       /\ inFlight[calls[k].key] = calls[k].fetch
  /\ \A d1, d2 \in Deliveries :
       d1.key = d2.key => d1.fetch = d2.fetch /\ d1.result = d2.result

C2_OneFetchPerKey ==
  mode = "server" =>
    /\ OneFetchPerKey
    /\ \A e \in Arrivals :
         InFlightBefore(e.key) # {} =>
           IF ~e.force /\ CachedFresh(e)
           THEN e.how = "cache" /\ e.result = cache[e.key].data
           ELSE e.how = "attached" /\ InFlightBefore(e.key) = {e.fetch}

\* C2 as stated: every call (force or not) arriving while a fetch for its
\* pair is in flight waits on that fetch and so gets the starter's result.
C2_EveryCallAttaches ==
  mode = "server" =>
    /\ OneFetchPerKey
    /\ \A e \in Arrivals :
         InFlightBefore(e.key) # {} =>
           e.how = "attached" /\ InFlightBefore(e.key) = {e.fetch}

\* two requests, nothing cached: one fetch per pair answers both callers
C2_Witness ==
  /\ mode = "server"
  /\ nRequests = 2
  /\ nFetches = 2
  /\ \E d1, d2 \in Deliveries :
       /\ d1.key = <<"apple", "US">> /\ d2.key = d1.key
       /\ d1.rid = 1 /\ d1.how = "started"
       /\ d2.rid = 2 /\ d2.how = "attached"
       /\ d1.result = d2.result /\ d1.result # Null

(***************************************************************************)
(* C5: a freshness check (isFresh of the server cache, isCacheFresh of the *)
(* lookup cache) answers true exactly when the entry exists, its timestamp *)
(* parses and now - timestamp <= ttl.                                      *)
(***************************************************************************)
C5_FreshIffWithinTtl ==
  \A k \in 1..Len(checks) :
    checks[k].result <=>
      (/\ checks[k].exists
       /\ ~checks[k].stamp.nan
       /\ checks[k].now - checks[k].stamp.ms <= checks[k].ttl)

\* an entry of the lookup cache aged exactly ttl is fresh
C5_Witness ==
  \E k \in 1..Len(checks) :
    /\ checks[k].fn = "isCacheFresh"
    /\ checks[k].exists /\ ~checks[k].stamp.nan
    /\ checks[k].now - checks[k].stamp.ms = ITUNES_TTL_MS
    /\ checks[k].result

(***************************************************************************)
(* C6: when a refresh fails and a previous value exists, the emitted value *)
(* keeps the previous new and updated lists and its error list is the      *)
(* previous one plus exactly one entry, marked preserved: true.            *)
(***************************************************************************)
PreservedFrom(prev, value) ==
  /\ value.new = prev.new
  /\ value.updated = prev.updated
  /\ Len(value.errors) = Len(prev.errors) + 1
  /\ SubSeq(value.errors, 1, Len(prev.errors)) = prev.errors
  /\ value.errors[Len(value.errors)].preserved = "true"

C6_FailureKeepsPrevious ==
  (lastEmit.kind = "fail" /\ lastEmit.prev # Null) =>
    PreservedFrom(lastEmit.prev, lastEmit.value)

\* the Apple path of the build, the previous record already holding an error
C6_Witness ==
  /\ lastEmit.path = "buildApple"
  /\ lastEmit.kind = "fail"
  /\ lastEmit.prev # Null
  /\ Len(lastEmit.prev.errors) = 1
  /\ Len(lastEmit.value.errors) = 2

(***************************************************************************)
(* C7: when a refresh fails and no previous value exists, the emitted      *)
(* value has empty new and updated lists and exactly one error entry,      *)
(* which is not marked preserved.                                          *)
(***************************************************************************)
C7_FailureWithoutPrevious ==
  (lastEmit.kind = "fail" /\ lastEmit.prev = Null) =>
    /\ lastEmit.value.new = <<>>
    /\ lastEmit.value.updated = <<>>
    /\ Len(lastEmit.value.errors) = 1
    /\ lastEmit.value.errors[1].preserved \in {"absent", "false"}

C7_Witness ==
  /\ lastEmit.path = "onDemand"
  /\ lastEmit.kind = "fail"
  /\ lastEmit.prev = Null
  /\ lastEmit.value.errors = <<ErrPlain>>
  /\ MapGet(cache, lastEmit.key) = [data |-> lastEmit.value, fetchedAt |-> now]

(***************************************************************************)
(* C8: a refresh that returns no new and no updated items while a previous *)
(* value exists is handled like a failure: the emitted value keeps the     *)
(* previous lists and gains a preserved: true error entry.                 *)
(***************************************************************************)
C8_EmptyResultKeepsPrevious ==
  (lastEmit.kind = "empty" /\ lastEmit.prev # Null) =>
    PreservedFrom(lastEmit.prev, lastEmit.value)

(***************************************************************************)
(* C9: every settled on-demand fetch, a preserved one included, is in the  *)
(* cache with the time it settled, and a non-force call arriving within    *)
(* the TTL of the last settled fetch of its pair returns that value from   *)
(* the cache and starts no fetch.                                          *)
(***************************************************************************)
C9_SettledFetchIsCached ==
  mode = "server" =>
    /\ \A key \in DOMAIN completed :
         /\ key \in DOMAIN cache
         /\ cache[key] = [data |-> completed[key].data,
                          fetchedAt |-> completed[key].at]
    /\ \A e \in Arrivals :
         (/\ ~e.force
          /\ e.key \in DOMAIN completed
          /\ e.at - completed[e.key].at <= CACHE_TTL_MS) =>
           /\ e.how = "cache"
           /\ e.fetch = 0
           /\ e.result = completed[e.key].data

\* a preserved value served from the cache a full TTL after the failure
C9_Witness ==
  /\ mode = "server"
  /\ \E e \in Arrivals :
       /\ ~e.force
       /\ e.key \in DOMAIN completed
       /\ e.at - completed[e.key].at = CACHE_TTL_MS
       /\ completed[e.key].data.preservedAt # NoStamp
       /\ e.how = "cache"
       /\ e.result = completed[e.key].data

(***************************************************************************)
(* C10: a call with force = true never returns the cached value: it waits  *)
(* on a fetch it started or on the one already in flight for its pair; no  *)
(* call removes a running fetch from under the calls waiting on it.        *)
(***************************************************************************)
C10_ForceAlwaysRefetches ==
  mode = "server" =>
    /\ \A e \in Arrivals :
         e.force =>
           /\ e.how \in {"started", "attached"}
           /\ e.result = Null
           /\ e.fetch \in DOMAIN fetches
           /\ fetches[e.fetch].key = e.key
           /\ e.how = "attached" => e.fetch \notin StartedNow
    /\ \A k \in 1..Len(calls) : calls[k].fetch \in DOMAIN fetches

\* one forced request: the Apple fetch is in flight, the Google entry fresh
C10_Witness ==
  /\ mode = "server"
  /\ \E a, g \in Arrivals :
       /\ a.force /\ a.key = <<"apple", "US">> /\ a.how = "attached"
       /\ g.force /\ g.key = <<"google", "US">> /\ g.how = "started"
       /\ g.key \in DOMAIN cache
       /\ isFresh(cache[g.key], now)

(***************************************************************************)
(* C11: tasks submitted while the limiter is full wait in the queue and    *)
(* start in submission order: of two tasks, the one submitted first is     *)
(* taken from the queue, and has its fn called, no later than the other;   *)
(* and a task that waited leaves the queue only in the step in which a     *)
(* running task's settlement is handled.                                   *)
(***************************************************************************)
Dequeued(t) == tstate[t] \notin {"new", "queued"}

StartsInSubmissionOrder ==
  \A i, j \in 1..Len(submitted) :
    i < j =>
      /\ Dequeued(submitted[j]) => Dequeued(submitted[i])
      /\ runs[submitted[j]] > 0 => runs[submitted[i]] > 0

QueuedStartsOnSettle ==
  \A t \in Tasks :
    (tstate[t] = "queued" /\ tstate'[t] # "queued") =>
      /\ tstate'[t] = "scheduled"
      /\ t = Head(queue)
      /\ \E u \in Tasks : /\ tstate[u] \in {"fulfilled", "failed"}
                          /\ tstate'[u] \in {"resolved", "rejected"}

C11_QueueIsFifo == [](mode = "limiter" => StartsInSubmissionOrder)
                     /\ [][QueuedStartsOnSettle]_vars

C11_Witness ==
  /\ mode = "limiter"
  /\ \E i, j \in 1..Len(submitted) :
       /\ i < j
       /\ {submitted[i], submitted[j]} \subseteq waited
       /\ submitted[i] > submitted[j]
       /\ runs[submitted[i]] > 0
       /\ runs[submitted[j]] > 0

(***************************************************************************)
(* C12: a task that fails releases its slot exactly as a successful one    *)
(* does (active drops by one and the head of the queue, if any, is         *)
(* scheduled in the same step); no queued task is ever dropped, and tasks  *)
(* wait only while the limiter is full; fn is called exactly once per      *)
(* submitted task; and the promise handed to the submitter settles with    *)
(* the value or the error of that task's own fn.                           *)
(***************************************************************************)
ReleaseEffect ==
  IF Len(queue) > 0
  THEN /\ queue' = Tail(queue)
       /\ active' = active
       /\ tstate'[Head(queue)] = "scheduled"
  ELSE /\ queue' = queue
       /\ active' = active - 1

FailureReleasesSlot ==
  \A t \in Tasks :
    (tstate[t] \in {"fulfilled", "failed"} /\ tstate'[t] # tstate[t]) =>
      /\ ReleaseEffect
      /\ tstate'[t] = IF tstate[t] = "failed" THEN "rejected" ELSE "resolved"

QueuedNeverDropped ==
  \A t \in Tasks :
    tstate[t] = "queued" =>
      /\ \E i \in 1..Len(queue) : queue[i] = t
      /\ tstate'[t] \in {"queued", "scheduled"}
      /\ tstate'[t] = "queued" => \E i \in 1..Len(queue') : queue'[i] = t

WaitsOnlyWhenFull == Len(queue) > 0 => active = limit

RunsExactlyOnce ==
  \A t \in Tasks :
    /\ runs[t] <= 1
    /\ promise[t].state = "settled" => runs[t] = 1

SettlesWithOwnOutcome ==
  \A t \in Tasks :
    promise[t].state = "settled" =>
      /\ promise[t] = fnSettled[t]
      /\ promise[t].of = t
      /\ promise[t].ok = (tstate[t] = "resolved")

C12_FailureReleasesAndPropagates ==
  /\ [](mode = "limiter" =>
          WaitsOnlyWhenFull /\ RunsExactlyOnce /\ SettlesWithOwnOutcome)
  /\ [][FailureReleasesSlot /\ QueuedNeverDropped]_vars

C12_Witness ==
  /\ mode = "limiter"
  /\ limit = 1
  /\ Len(submitted) >= 2
  /\ tstate[submitted[1]] = "rejected"
  /\ promise[submitted[1]] = Settled(FALSE, submitted[1])
  /\ submitted[2] \in waited
  /\ promise[submitted[2]] = Settled(TRUE, submitted[2])

(***************************************************************************)
(* C13: fetchWithRetry with a delay table of length L calls the operation  *)
(* at most L + 1 times, returns the value of the first success and calls   *)
(* nothing after it, sleeps delays[i] after the i-th failure (i < L)       *)
(* before the next attempt and not after the last one, ends in every       *)
(* behaviour in which each awaited call settles, and when all attempts     *)
(* fail throws the error of the last attempt.                              *)
(***************************************************************************)
RECURSIVE SumSeq(_)
SumSeq(q) == IF Len(q) = 0 THEN 0 ELSE Head(q) + SumSeq(Tail(q))

Failures == {k \in 1..Len(attempts) : attempts[k].how = "throw"}

RetrySafety ==
  LET L == Len(RETRY_DELAYS)
      n == Len(attempts)
  IN /\ n <= L + 1
     /\ \A k \in 1..(n - 1) : attempts[k].how = "throw"
     /\ (n > 0 /\ attempts[n].how = "return") =>
           (retryPc = "done" /\ retryOut = attempts[n])
     /\ retryOut.how = "return" => (n > 0 /\ attempts[n] = retryOut)
     /\ slept = SubSeq(RETRY_DELAYS, 1, Min(Cardinality(Failures), L))
     /\ retryPc = "fetchJson" => elapsed = SumSeq(SubSeq(RETRY_DELAYS, 1, n))
     /\ retryPc = "sleep" => elapsed = SumSeq(SubSeq(RETRY_DELAYS, 1, n - 1))
     /\ retryOut.how = "throw" =>
           /\ n = L + 1
           /\ retryOut.error = attempts[n].error
           /\ retryOut.error.attempt = n
           /\ slept = RETRY_DELAYS
           /\ elapsed = SumSeq(RETRY_DELAYS)
     /\ retryPc = "done" <=> retryOut.how # "pending"

C13_RetryBoundedAndLastError ==
  /\ [](mode = "retry" => RetrySafety)
  /\ <>(mode = "retry" => retryPc = "done")

C13_Witness ==
  /\ mode = "retry"
  /\ retryOut.how = "throw"
  /\ Len(attempts) = Len(RETRY_DELAYS) + 1
  /\ attempts[1].error.kind # retryOut.error.kind

(***************************************************************************)
(* C14: a batch run given an explicit list of keys does not call the       *)
(* round-robin scheduler, processes exactly the catalog keys whose code    *)
(* is in the (trimmed, upper-cased) list and writes the records of no      *)
(* other key, and the cursor it persists at its end equals the cursor      *)
(* that was persisted before the run (0 while no scheduler-state record    *)
(* exists).                                                                *)
(***************************************************************************)
ExplicitRun ==
  /\ run.phase # "idle"
  /\ run.args.countries # Null
  /\ Len(run.args.countries.list) > 0

Listed(code) ==
  \E k \in 1..Len(run.args.countries.list) :
    normalizeCode(run.args.countries.list[k]) = code

ExplicitRunTargets ==
  ExplicitRun =>
    /\ ~run.sliced
    /\ run.target = SelectSeq(run.countries, Listed)
    /\ Len(tasks) <= Len(run.target)
    /\ run.phase = "tasks" => Len(tasks) = Len(run.target)
    /\ \A i \in 1..Len(tasks) : tasks[i].country = run.target[i]
    /\ run.cursor = LoadedCursor

ExplicitRunWrites ==
  ExplicitRun =>
    /\ \A key \in DOMAIN files' :
         (key \notin DOMAIN files \/ files'[key] # files[key]) => Listed(key[2])
    /\ (meta' # meta) =>
         /\ run.phase = "meta"
         /\ meta'.incrementalCursor = LoadedCursor
         /\ meta'.countriesProcessed = run.target

C14_ExplicitListKeepsCursor ==
  /\ [](mode = "build" => ExplicitRunTargets)
  /\ [][mode = "build" => ExplicitRunWrites]_vars

C14_Witness ==
  /\ mode = "build"
  /\ run.phase = "idle"
  /\ meta # Null
  /\ meta.runType = "incremental"
  /\ meta.incrementalSize = 20
  /\ meta.countriesProcessed = <<"CA">>
  /\ meta.incrementalCursor = 1
  /\ <<"apple", "CA">> \in DOMAIN files

(***************************************************************************)
(* C15: after any completed batch run over a non-empty catalog, the        *)
(* cursor persisted in the scheduler-state record satisfies                *)
(* 0 <= cursor < catalogLength, the length of the catalog that run read.   *)
(***************************************************************************)
C15_CursorInCatalogRange ==
  (/\ mode = "build"
   /\ run.phase = "idle"
   /\ meta # Null
   /\ summary # Null
   /\ summary.totalCountries > 0) =>
     /\ 0 <= meta.incrementalCursor
     /\ meta.incrementalCursor < summary.totalCountries

(***************************************************************************)
(* C16: buildSummary returns one entry per catalog key, in catalog order;  *)
(* for each source the entry is null when the cache holds nothing for the  *)
(* (source, key) and otherwise {updatedAt, newCount, updatedCount,         *)
(* errorCount} of the value of the last settled fetch of that pair; the    *)
(* call changes neither the cache nor the in-flight map and starts no      *)
(* fetch, also while fetches are in flight.                                *)
(***************************************************************************)
ProjectionOf(entry, key) ==
  IF key \notin DOMAIN cache
  THEN entry = Null /\ key \notin DOMAIN completed
  ELSE /\ entry # Null
       /\ key \in DOMAIN completed
       /\ cache[key].data = completed[key].data
       /\ entry.updatedAt = completed[key].data.updatedAt
       /\ entry.newCount = Len(completed[key].data.new)
       /\ entry.updatedCount = Len(completed[key].data.updated)
       /\ entry.errorCount = Len(completed[key].data.errors)

SummaryProjectsCache ==
  \A e \in SeqToSet(events) :
    e.ev = "summary" =>
      /\ Len(e.result.countries) = Len(countryCodes)
      /\ \A k \in 1..Len(countryCodes) :
           /\ e.result.countries[k].code = countryCodes[k]
           /\ ProjectionOf(e.result.countries[k].apple, <<"apple", countryCodes[k]>>)
           /\ ProjectionOf(e.result.countries[k].google, <<"google", countryCodes[k]>>)

SummaryHasNoEffect ==
  (\E e \in SeqToSet(events') : e.ev = "summary") =>
     UNCHANGED <<cache, inFlight, fetches, nFetches, calls, completed>>

C16_SummaryIsReadOnlyProjection ==
  /\ [](mode = "server" => SummaryProjectsCache)
  /\ [][mode = "server" => SummaryHasNoEffect]_vars

C16_Witness ==
  /\ mode = "server"
  /\ DOMAIN inFlight # {}
  /\ \E e \in SeqToSet(events) :
       /\ e.ev = "summary"
       /\ e.result.countries[1].apple # Null
       /\ e.result.countries[1].apple.errorCount > 0
       /\ e.result.countries[1].google = Null
       /\ e.result.countries[2].apple = Null

(***************************************************************************)
(* C17: every on-demand request for a catalog key is served by             *)
(* getStoreData, and every getStoreData call is answered with a value      *)
(* that has new, updated and errors lists, whatever the upstream fetch     *)
(* did: when the fetch failed the value is the previous one with one more  *)
(* error entry, or empty lists with one error entry.                       *)
(***************************************************************************)
HasLists(data) ==
  /\ {"new", "updated", "errors"} \subseteq DOMAIN data
  /\ DOMAIN data.new = 1..Len(data.new)
  /\ DOMAIN data.updated = 1..Len(data.updated)
  /\ DOMAIN data.errors = 1..Len(data.errors)

Answers ==
  {e \in SeqToSet(events) :
     \/ e.ev = "deliver"
     \/ e.ev = "arrive" /\ e.how = "cache"}

C17_OnDemandNeverFailsHard ==
  mode = "server" =>
    /\ \A e \in SeqToSet(events) :
         e.ev = "arrive" =>
           (e.key[2] \in SeqToSet(countryCodes) <=> e.how # "rejected")
    /\ \A e \in Answers : HasLists(e.result)
    /\ \A e \in Deliveries :
         lastEmit.kind = "fail" =>
           /\ e.key = lastEmit.key
           /\ Len(e.result.errors) >= 1
           /\ \/ lastEmit.prev = Null /\ e.result.new = <<>> /\ e.result.updated = <<>>
              \/ /\ lastEmit.prev # Null
                 /\ e.result.new = lastEmit.prev.new
                 /\ e.result.updated = lastEmit.prev.updated
    /\ \A i \in 1..Len(calls) : calls[i].fetch \in DOMAIN fetches

C17_Witness ==
  /\ mode = "server"
  /\ lastEmit.kind = "fail"
  /\ lastEmit.prev # Null
  /\ \E e \in Deliveries : /\ e.key[1] = "apple"
                           /\ Len(e.result.new) > 0
                           /\ Len(e.result.errors) > 0

(***************************************************************************)
(* C18: an on-demand request for a key that is not in the catalog is       *)
(* rejected in the step that handles it: it starts no upstream fetch for   *)
(* either source, adds nothing to the cache or the in-flight map, leaves   *)
(* no call waiting, and no fetch for such a key ever runs afterwards.      *)
(***************************************************************************)
KnownKeysOnly ==
  /\ \A key \in DOMAIN cache \cup DOMAIN inFlight :
       key[2] \in SeqToSet(countryCodes)
  /\ \A id \in DOMAIN fetches : fetches[id].key[2] \in SeqToSet(countryCodes)
  /\ \A i \in 1..Len(calls) : calls[i].key[2] \in SeqToSet(countryCodes)

UnknownKeyHasNoEffect ==
  \A e \in SeqToSet(events') :
    (e.ev = "arrive" /\ e.key[2] \notin SeqToSet(countryCodes)) =>
      /\ e.how = "rejected"
      /\ Len(events') = 1
      /\ UNCHANGED <<cache, inFlight, fetches, nFetches, calls, completed>>

C18_UnknownKeyRejected ==
  /\ [](mode = "server" => KnownKeysOnly)
  /\ [][mode = "server" => UnknownKeyHasNoEffect]_vars

C18_Witness ==
  /\ mode = "server"
  /\ DOMAIN inFlight # {}
  /\ \E e \in SeqToSet(events) :
       e.ev = "arrive" /\ e.how = "rejected" /\ e.key[2] = "ZZ" /\ e.force

(***************************************************************************)
(* C19: in a batch run the failure of an upstream fetch of one key never   *)
(* ends the run and never stops another key: a run that has started ends   *)
(* only by its final scheduler-state write, it does end when every         *)
(* awaited call settles, and by then every key of the batch has a          *)
(* persisted record for both sources, the one its own task produced.       *)
(***************************************************************************)
BatchPersisted ==
  run.phase = "meta" =>
    /\ Len(tasks) = Len(run.target)
    /\ \A i \in 1..Len(tasks) :
         /\ tasks[i].pc = "done"
         /\ tasks[i].country = run.target[i]
         /\ <<"apple", tasks[i].country>> \in DOMAIN files
         /\ <<"google", tasks[i].country>> \in DOMAIN files
         /\ files[<<"google", tasks[i].country>>] = tasks[i].googleData
         /\ files[<<"apple", tasks[i].country>>] = tasks[i].appleData

RunEndsByMetaWrite ==
  (run.phase # "idle" /\ run'.phase = "idle") =>
    /\ run.phase = "meta"
    /\ meta' # Null
    /\ meta'.countriesProcessed = run.target
    /\ meta'.lastRunAt = toISOString(now)
    /\ \A k \in 1..Len(run.target) :
         /\ <<"apple", run.target[k]>> \in DOMAIN files'
         /\ <<"google", run.target[k]>> \in DOMAIN files'

C19_KeyFailuresAreIsolated ==
  /\ [](mode = "build" => BatchPersisted)
  /\ [][mode = "build" => RunEndsByMetaWrite]_vars
  /\ [](mode = "build" /\ run.phase = "tasks" => <>(run.phase = "meta"))

C19_Witness ==
  /\ mode = "build"
  /\ run.phase = "meta"
  /\ Len(tasks) = 2
  /\ files[<<"apple", tasks[1].country>>].errors # <<>>
  /\ files[<<"google", tasks[1].country>>].errors # <<>>
  /\ files[<<"apple", tasks[2].country>>].errors = <<>>
  /\ files[<<"google", tasks[2].country>>].errors = <<>>
  /\ files[<<"apple", tasks[2].country>>].new # <<>>

(***************************************************************************)
(* C20: wherever a failed refresh reuses the previous value (the Apple     *)
(* path and the Google path of the batch build, and the on-demand          *)
(* fallback), the emitted value carries preservedAt equal to the time of   *)
(* the failed refresh.                                                     *)
(***************************************************************************)
C20_PreservedCarriesPreservedAt ==
  (lastEmit.kind = "fail" /\ lastEmit.prev # Null) =>
     lastEmit.value.preservedAt = toISOString(lastEmit.at)

(***************************************************************************)
(* C21: a previous value that a failed refresh reuses (and re-emits with   *)
(* an entry marked preserved: true) always descends from a successful      *)
(* fetch: it is never a value made by the no-previous-value fallback,      *)
(* i.e. one whose first error entry is not marked preserved.               *)
(***************************************************************************)
FromFallback(data) ==
  /\ data.errors # <<>>
  /\ data.errors[1].preserved # "true"

C21_PreservedHoldsLastGood ==
  (lastEmit.kind = "fail" /\ lastEmit.prev # Null) =>
     ~FromFallback(lastEmit.prev)

(***************************************************************************)
(* C24 (as stated): after every refresh the number of entries marked       *)
(* preserved: true in the emitted value equals the number of consecutive   *)
(* failed refreshes up to and including this one (each failed refresh      *)
(* since the last success left one error entry in the stored value), and   *)
(* is zero after a successful refresh.                                     *)
(***************************************************************************)
PreservedCount(data) ==
  Cardinality({k \in 1..Len(data.errors) : data.errors[k].preserved = "true"})

ConsecutiveFailures ==
  IF lastEmit.kind # "fail"
  THEN 0
  ELSE IF lastEmit.prev = Null THEN 1 ELSE Len(lastEmit.prev.errors) + 1

C24_PreservedCountsFailures ==
  lastEmit.kind # "none" => PreservedCount(lastEmit.value) = ConsecutiveFailures

(***************************************************************************)
(* C24 (amended): after every refresh the number of entries marked         *)
(* preserved: true in the emitted value is one more than in the value      *)
(* stored before when the refresh failed and reused that value, and zero   *)
(* otherwise: it counts the consecutive preservations, not the failed      *)
(* refresh that found no previous value.                                   *)
(***************************************************************************)
C24_PreservedCountsPreservations ==
  lastEmit.kind # "none" =>
    PreservedCount(lastEmit.value) =
      IF lastEmit.kind = "fail" /\ lastEmit.prev # Null
      THEN PreservedCount(lastEmit.prev) + 1
      ELSE 0

C24_Witness ==
  /\ lastEmit.kind = "fail"
  /\ lastEmit.prev # Null
  /\ FromFallback(lastEmit.prev)
  /\ PreservedCount(lastEmit.value) = 2
  /\ Len(lastEmit.value.errors) = 3

(***************************************************************************)
(* C22: the fallback is decided per source.  Every stored value belongs    *)
(* to the source and key it is stored under; the step in which a refresh   *)
(* of one source fails leaves the other source's cache entry, in-flight    *)
(* entry, running fetch, task data and persisted record as they were; and  *)
(* the other source is fetched all the same: a batch task goes on to its   *)
(* Google fetch after the Apple fallback, and an on-demand request calls   *)
(* getStoreData for both sources.                                          *)
(***************************************************************************)
OtherSource(key) == <<IF key[1] = "apple" THEN "google" ELSE "apple", key[2]>>

StoredUnderOwnKey ==
  /\ \A key \in DOMAIN cache :
       cache[key].data.store = key[1] /\ cache[key].data.country = key[2]
  /\ \A key \in DOMAIN files :
       files[key].store = key[1] /\ files[key].country = key[2]
  /\ lastEmit.kind # "none" =>
       /\ lastEmit.value.store = lastEmit.key[1]
       /\ lastEmit.prev # Null => lastEmit.prev.store = lastEmit.key[1]

FailureLeavesOtherSource ==
  lastEmit'.kind = "fail" =>
    LET other == OtherSource(lastEmit'.key)
    IN /\ MapGet(cache', other) = MapGet(cache, other)
       /\ MapGet(inFlight', other) = MapGet(inFlight, other)
       /\ \A id \in DOMAIN fetches :
            fetches[id].key = other => (id \in DOMAIN fetches' /\ fetches'[id] = fetches[id])
       /\ MapGet(files', other) = MapGet(files, other)
       /\ \A i \in 1..Len(tasks) :
            tasks[i].country = lastEmit'.key[2] =>
              /\ lastEmit'.path = "buildApple" =>
                   /\ tasks'[i].googleData = tasks[i].googleData
                   /\ tasks'[i].previousGoogle = tasks[i].previousGoogle
                   /\ tasks'[i].pc = "google"
              /\ lastEmit'.path = "google" =>
                   /\ tasks'[i].appleData = tasks[i].appleData
                   /\ tasks'[i].pc = "saveApple"

BothSourcesRequested ==
  \A e \in SeqToSet(events') :
    (e.ev = "arrive" /\ e.how # "rejected") =>
       \E o \in SeqToSet(events') :
         /\ o.ev = "arrive"
         /\ o.rid = e.rid
         /\ o.key = OtherSource(e.key)
         /\ o.how = IF ~o.force /\ isFresh(MapGet(cache, o.key), now) THEN "cache"
                    ELSE IF o.key \in DOMAIN inFlight THEN "attached"
                    ELSE "started"

C22_FallbackPerSource ==
  /\ []StoredUnderOwnKey
  /\ [][FailureLeavesOtherSource /\ BothSourcesRequested]_vars

C22_Witness ==
  /\ mode = "build"
  /\ \E i \in 1..Len(tasks) :
       /\ tasks[i].pc = "saveApple"
       /\ tasks[i].previousApple # Null
       /\ tasks[i].appleData.errors # <<>>
       /\ tasks[i].googleData.errors = <<>>
       /\ tasks[i].googleData.new # <<>>
  /\ lastEmit.kind = "ok"
  /\ lastEmit.path = "google"

(***************************************************************************)
(* C23: within a batch run the persisted scheduler state changes only in   *)
(* the run's final write, after every per-key record of the batch and      *)
(* this run's summary record have been persisted; while the run is under   *)
(* way the persisted cursor is the one the run loaded, and a run that      *)
(* fails before the final write leaves it as it was.                       *)
(***************************************************************************)
CursorStableDuringRun ==
  run.phase # "idle" => LoadedCursor = run.cursor

MetaWrittenLast ==
  meta' # meta =>
    /\ run.phase = "meta"
    /\ run'.phase = "idle"
    /\ \A i \in 1..Len(tasks) : tasks[i].pc = "done"
    /\ \A k \in 1..Len(run.target) :
         /\ <<"apple", run.target[k]>> \in DOMAIN files
         /\ <<"google", run.target[k]>> \in DOMAIN files
         /\ files[<<"apple", run.target[k]>>].updatedAt.ms <= now
    /\ summary # Null
    /\ summary.generatedAt = toISOString(now)
    /\ summary.countriesProcessed = run.target
    /\ files' = files
    /\ summary' = summary

FailedRunKeepsCursor ==
  (run.phase = "tasks" /\ run'.phase = "idle") => meta' = meta

C23_CursorWrittenOnceAtEnd ==
  /\ [](mode = "build" => CursorStableDuringRun)
  /\ [][mode = "build" => (MetaWrittenLast /\ FailedRunKeepsCursor)]_vars

C23_Witness ==
  /\ mode = "build"
  /\ run.phase = "idle"
  /\ nRuns = 2
  /\ meta # Null
  /\ meta.incrementalCursor = 1
  /\ meta.countriesProcessed = <<"US">>
  /\ <<"apple", "CA">> \in DOMAIN files
  /\ <<"google", "CA">> \notin DOMAIN files

(***************************************************************************)
(* C25: for a limiter with limit N >= 1, when every started task settles,  *)
(* every submitted task has its fn called and the promise handed to its    *)
(* submitter settles; a task waits in the queue only while N slots are     *)
(* taken (active = N), and no slot is taken once every submitted task has  *)
(* settled.                                                                *)
(***************************************************************************)
SubmittedTasks == {submitted[k] : k \in 1..Len(submitted)}

SlotsDrain ==
  (\A t \in SubmittedTasks : promise[t].state = "settled") =>
     (active = 0 /\ queue = <<>> /\ micro = <<>>)

ActiveCountsSlots ==
  active = Cardinality({t \in Tasks :
                          tstate[t] \in {"scheduled", "running", "fulfilled", "failed"}})

C25_LimiterLiveAndWorkConserving ==
  /\ [](mode = "limiter" =>
          /\ limit >= 1
          /\ WaitsOnlyWhenFull
          /\ ActiveCountsSlots
          /\ SlotsDrain)
  /\ \A t \in Tasks :
       (mode = "limiter" /\ tstate[t] # "new") ~>
          (runs[t] = 1 /\ promise[t].state = "settled")

C25_Witness ==
  /\ mode = "limiter"
  /\ Len(submitted) = MaxTasks
  /\ Cardinality(waited) >= 2
  /\ \A t \in Tasks : promise[t].state = "settled"
  /\ active = 0

(***************************************************************************)
(* C26: in on-demand mode the in-flight map has an entry for a (source,    *)
(* key) exactly while a fetch for that pair is running, and the entry is   *)
(* that fetch's promise; the entry goes in the step in which the fetch     *)
(* settles, whether it succeeded or failed, and in that same step the      *)
(* cache entry of the pair is written; an entry appears only together      *)
(* with a newly started fetch; no call waits on a settled fetch.           *)
(***************************************************************************)
InFlightIffRunning ==
  /\ DOMAIN inFlight = {fetches[id].key : id \in DOMAIN fetches}
  /\ \A key \in DOMAIN inFlight :
       /\ inFlight[key] \in DOMAIN fetches
       /\ fetches[inFlight[key]].key = key
  /\ \A id1, id2 \in DOMAIN fetches : fetches[id1].key = fetches[id2].key => id1 = id2
  /\ \A i \in 1..Len(calls) : calls[i].fetch \in DOMAIN fetches
  /\ \A e \in Arrivals : e.how \in {"attached", "started"} => e.fetch \in DOMAIN fetches

EntryLeavesWhenSettled ==
  \A key \in DOMAIN inFlight :
    key \notin DOMAIN inFlight' =>
      /\ inFlight[key] \notin DOMAIN fetches'
      /\ lastEmit'.key = key
      /\ lastEmit'.kind \in {"ok", "empty", "fail"}
      /\ key \in DOMAIN cache'
      /\ cache'[key] = [data |-> lastEmit'.value, fetchedAt |-> now]

EntryArrivesWithFetch ==
  \A key \in DOMAIN inFlight' :
    key \notin DOMAIN inFlight =>
      /\ inFlight'[key] \notin DOMAIN fetches
      /\ inFlight'[key] \in DOMAIN fetches'
      /\ nFetches' > nFetches

FetchSettlesOnlyWithEntry ==
  \A id \in DOMAIN fetches :
    id \notin DOMAIN fetches' => fetches[id].key \notin DOMAIN inFlight'

C26_InFlightExactlyWhileRunning ==
  /\ [](mode = "server" => InFlightIffRunning)
  /\ [][mode = "server" =>
          (EntryLeavesWhenSettled /\ EntryArrivesWithFetch /\ FetchSettlesOnlyWithEntry)]_vars

C26_Witness ==
  /\ mode = "server"
  /\ lastEmit.kind = "fail"
  /\ lastEmit.key \notin DOMAIN inFlight
  /\ cache[lastEmit.key].fetchedAt = now
  /\ OtherSource(lastEmit.key) \in DOMAIN inFlight
  /\ Len(calls) >= 2

(***************************************************************************)
(* C27: once all concurrently running fetchAppleData calls have saved the  *)
(* lookup cache, every entry any of them put is in the persisted cache.    *)
(***************************************************************************)
C27_NoLostLookupEntries ==
  (mode = "lookup" /\ \A w \in Workers : workers[w].pc = "done") =>
     \A w \in Workers : workers[w].put \subseteq DOMAIN itunesFile

(***************************************************************************)
(* C28: a batch run writes per-key records only for the keys of its        *)
(* batch, so the persisted record of every other key stays as it was; and  *)
(* the summary it writes has one entry per catalog key, in catalog order,  *)
(* each source projected from the record persisted for the key at that     *)
(* time, null when there is none.                                          *)
(***************************************************************************)
InBatch(code) == \E k \in 1..Len(run.target) : run.target[k] = code

OnlyBatchRecordsWritten ==
  \A key \in DOMAIN files \cup DOMAIN files' :
    MapGet(files', key) # MapGet(files, key) =>
      /\ run.phase = "tasks"
      /\ InBatch(key[2])
      /\ key \in DOMAIN files'

RecordProjection(entry, key) ==
  IF key \notin DOMAIN files
  THEN entry = Null
  ELSE /\ entry # Null
       /\ entry.updatedAt = files[key].updatedAt
       /\ entry.newCount = Len(files[key].new)
       /\ entry.updatedCount = Len(files[key].updated)
       /\ entry.errorCount = Len(files[key].errors)

SummaryCoversCatalog ==
  run.phase = "meta" =>
    /\ summary # Null
    /\ summary.totalCountries = Len(run.countries)
    /\ Len(summary.countries) = Len(run.countries)
    /\ \A k \in 1..Len(run.countries) :
         /\ summary.countries[k].code = run.countries[k]
         /\ RecordProjection(summary.countries[k].apple, <<"apple", run.countries[k]>>)
         /\ RecordProjection(summary.countries[k].google, <<"google", run.countries[k]>>)

C28_OnlyBatchKeysWritten ==
  /\ [](mode = "build" => SummaryCoversCatalog)
  /\ [][mode = "build" => OnlyBatchRecordsWritten]_vars

C28_Witness ==
  /\ mode = "build"
  /\ run.phase = "meta"
  /\ ~run.args.full
  /\ run.target = <<"CA">>
  /\ run.countries = <<"US", "CA">>
  /\ summary.countries[1].apple # Null
  /\ files[<<"apple", "US">>].updatedAt.ms < now
  /\ files[<<"apple", "CA">>].updatedAt.ms = now
  /\ summary.countries[2].google # Null

====
